---- MODULE Spec2Model ----
(***************************************************************************)
(* A model of gocardless/go-shutil (shutil.go): CopyFile, CopyMode, Copy,  *)
(* CopyTree, Move and destinsrc, over an explicit POSIX-like filesystem.   *)
(*                                                                         *)
(* A path is a sequence of one-character names relative to the working     *)
(* directory, which is the root <<>> of the modelled filesystem.  The      *)
(* filesystem maps every existing canonical path to a node:                *)
(*     [t |-> "dir",  m |-> mode]                                          *)
(*     [t |-> "file", m |-> mode, c |-> content]                           *)
(*     [t |-> "link", to |-> target path, relative to the link's parent]   *)
(* mode is "rw" or "ro"; entries of a "ro" directory cannot be created,    *)
(* removed or renamed (EACCES), a "ro" file cannot be truncated.  Named    *)
(* pipes are not modelled, so specialfile() is false of every node.        *)
(*                                                                         *)
(* The library keeps no state of its own: a behaviour is one call, from a  *)
(* filesystem fs0 drawn at the start to the filesystem fs it leaves and    *)
(* the result ret it returns.  Each call is one atomic step, as the        *)
(* library is synchronous and single-threaded.                             *)
(***************************************************************************)
EXTENDS Integers, Sequences, FiniteSets, TLC

VARIABLES phase, fs0, fs, call, ret
vars == <<phase, fs0, fs, call, ret>>

\* Longest path (in names) a system call accepts: the model's PATH_MAX.
MaxPathLen == 5
\* Symbolic links followed in one lookup before ELOOP.
MaxSymlinks == 3
\* Longest path string destinsrc is applied to on its own.
MaxStrLen == 3

\* ioutil.ReadDir returns the entries sorted by name: the order of the names.
NameOrder == <<"a", "b", "c", "d", "f", "l", "x">>

Front(s) == SubSeq(s, 1, Len(s) - 1)
Last(s) == s[Len(s)]
IsPrefix(p, q) == Len(p) <= Len(q) /\ SubSeq(q, 1, Len(p)) = p

Dir(m) == [t |-> "dir", m |-> m]
File(c, m) == [t |-> "file", m |-> m, c |-> c]
Link(to) == [t |-> "link", to |-> to]

Put(f, p, node) == [q \in DOMAIN f \cup {p} |-> IF q = p THEN node ELSE f[q]]
Del(f, S) == [q \in DOMAIN f \ S |-> f[q]]
Children(f, d) == {q \in DOMAIN f : Len(q) = Len(d) + 1 /\ IsPrefix(d, q)}
Subtree(f, d) == {q \in DOMAIN f : IsPrefix(d, q)}

(***************************************************************************)
(* Path lookup: walks `rest` from the canonical directory `cur`, following *)
(* symbolic links in every component but the last, and in the last one     *)
(* when `follow` (stat) and not otherwise (lstat).  On ENOENT, `p` is the  *)
(* canonical path that does not exist and `last` says it was the final     *)
(* component, so that its parent Front(p) exists and is a directory.       *)
(***************************************************************************)
RECURSIVE Walk(_, _, _, _, _)
Walk(f, cur, rest, follow, fuel) ==
  IF rest = <<>> THEN [err |-> "nil", p |-> cur, last |-> TRUE]
  ELSE IF f[cur].t # "dir" THEN [err |-> "ENOTDIR", p |-> cur, last |-> FALSE]
  ELSE LET p == Append(cur, Head(rest))
           more == Tail(rest)
       IN IF p \notin DOMAIN f
          THEN [err |-> "ENOENT", p |-> p, last |-> (more = <<>>)]
          ELSE IF f[p].t = "link" /\ (more # <<>> \/ follow)
               THEN IF fuel = 0
                    THEN [err |-> "ELOOP", p |-> p, last |-> FALSE]
                    ELSE Walk(f, cur, f[p].to \o more, follow, fuel - 1)
               ELSE Walk(f, p, more, follow, fuel)

Lookup(f, path, follow) ==
  IF Len(path) > MaxPathLen
  THEN [err |-> "ENAMETOOLONG", p |-> <<>>, last |-> FALSE]
  ELSE Walk(f, <<>>, path, follow, MaxSymlinks)

Stat(f, path) == Lookup(f, path, TRUE)
Lstat(f, path) == Lookup(f, path, FALSE)

\* os.IsNotExist(err) for a non-nil err
IsNotExist(e) == e = "ENOENT"

IsDirAt(f, path) ==
  LET r == Stat(f, path) IN r.err = "nil" /\ f[r.p].t = "dir"

\* An entry can be created at the canonical path p (parent exists: it is
\* a directory) only when the parent is writable.
Writable(f, d) == f[d].m = "rw"

R(f, e) == [f |-> f, err |-> e]

\* os.Symlink(target, path)
Symlink(f, target, path) ==
  LET r == Lstat(f, path)
  IN IF r.err = "nil" THEN R(f, "EEXIST")
     ELSE IF ~(r.err = "ENOENT" /\ r.last) THEN R(f, r.err)
     ELSE IF ~Writable(f, Front(r.p)) THEN R(f, "EACCES")
     ELSE R(Put(f, r.p, Link(target)), "nil")

\* os.Mkdir(path, perm)
Mkdir(f, path, m) ==
  LET r == Lstat(f, path)
  IN IF r.err = "nil" THEN R(f, "EEXIST")
     ELSE IF ~(r.err = "ENOENT" /\ r.last) THEN R(f, r.err)
     ELSE IF ~Writable(f, Front(r.p)) THEN R(f, "EACCES")
     ELSE R(Put(f, r.p, Dir(m)), "nil")

\* os.MkdirAll(path, perm)
RECURSIVE MkdirAll(_, _, _)
MkdirAll(f, path, m) ==
  LET st == Stat(f, path)
  IN IF st.err = "nil"
     THEN IF f[st.p].t = "dir" THEN R(f, "nil") ELSE R(f, "ENOTDIR")
     ELSE LET par == IF Len(path) > 1 THEN MkdirAll(f, Front(path), m)
                     ELSE R(f, "nil")
          IN IF par.err # "nil" THEN par
             ELSE LET mk == Mkdir(par.f, path, m)
                      ls == Lstat(par.f, path)
                  IN IF mk.err = "nil" THEN mk
                     ELSE IF ls.err = "nil" /\ par.f[ls.p].t = "dir"
                          THEN R(par.f, "nil")
                          ELSE mk

\* os.Create(path): open(O_RDWR|O_CREAT|O_TRUNC), which follows symlinks.
\* An empty file has content 0.
Create(f, path) ==
  LET r == Stat(f, path)
  IN IF r.err = "nil"
     THEN IF f[r.p].t = "dir" THEN R(f, "EISDIR")
          ELSE IF f[r.p].m = "ro" THEN R(f, "EACCES")
          ELSE R(Put(f, r.p, File(0, f[r.p].m)), "nil")
     ELSE IF ~(r.err = "ENOENT" /\ r.last) THEN R(f, r.err)
     ELSE IF ~Writable(f, Front(r.p)) THEN R(f, "EACCES")
     ELSE R(Put(f, r.p, File(0, "rw")), "nil")

\* os.Remove(path): unlink, or rmdir of an empty directory
Remove(f, path) ==
  LET r == Lstat(f, path)
  IN IF r.err # "nil" THEN R(f, r.err)
     ELSE IF r.p = <<>> THEN R(f, "EACCES")
     ELSE IF ~Writable(f, Front(r.p)) THEN R(f, "EACCES")
     ELSE IF f[r.p].t = "dir" /\ Children(f, r.p) # {} THEN R(f, "ENOTEMPTY")
     ELSE R(Del(f, {r.p}), "nil")

\* What os.RemoveAll can remove below (and including) a canonical path: an
\* entry of a writable directory, once everything below it is removed.
RECURSIVE Removable(_, _)
Removable(f, q) ==
  /\ q # <<>>
  /\ Writable(f, Front(q))
  /\ f[q].t = "dir" => \A k \in Children(f, q) : Removable(f, k)

\* os.RemoveAll(path): nil when path does not exist; removes what it can.
RemoveAll(f, path) ==
  LET r == Lstat(f, path)
  IN IF r.err = "ENOENT" THEN R(f, "nil")
     ELSE IF r.err # "nil" THEN R(f, r.err)
     ELSE LET gone == {q \in Subtree(f, r.p) : Removable(f, q)}
          IN R(Del(f, gone), IF r.p \in gone THEN "nil" ELSE "EACCES")

\* os.Chmod(path, mode): follows symlinks
Chmod(f, path, m) ==
  LET r == Stat(f, path)
  IN IF r.err # "nil" THEN R(f, r.err)
     ELSE IF f[r.p].t = "dir" THEN R(Put(f, r.p, Dir(m)), "nil")
     ELSE R(Put(f, r.p, File(f[r.p].c, m)), "nil")

\* The subtree at canonical `po` moved to canonical `pn`.
MoveSubtree(f, po, pn) ==
  LET old == Subtree(f, po)
      keep == (DOMAIN f \ old) \ Subtree(f, pn)
      new == {pn \o SubSeq(q, Len(po) + 1, Len(q)) : q \in old}
  IN [q \in keep \cup new |->
        IF q \in new THEN f[po \o SubSeq(q, Len(pn) + 1, Len(q))] ELSE f[q]]

(***************************************************************************)
(* os.Rename(old, new).  Go first refuses an existing directory `new`      *)
(* (EEXIST) unless it is the same file under another name; then rename(2). *)
(* `xdev` says that old and new are on different filesystems (EXDEV).      *)
(***************************************************************************)
Rename(f, old, new, xdev) ==
  LET ro == Lstat(f, old)
      rn == Lstat(f, new)
  IN IF rn.err = "nil" /\ f[rn.p].t = "dir" /\ ro.err # "nil" THEN R(f, ro.err)
     ELSE IF rn.err = "nil" /\ f[rn.p].t = "dir" /\ (new = old \/ rn.p # ro.p)
          THEN R(f, "EEXIST")
     ELSE IF ro.err # "nil" THEN R(f, ro.err)
     ELSE IF ~(rn.err = "nil" \/ (rn.err = "ENOENT" /\ rn.last)) THEN R(f, rn.err)
     ELSE IF ro.p = rn.p THEN R(f, "nil")
     ELSE IF ro.p = <<>> \/ rn.p = <<>> THEN R(f, "EBUSY")
     ELSE IF f[ro.p].t = "dir" /\ IsPrefix(ro.p, rn.p) THEN R(f, "EINVAL")
     ELSE IF xdev THEN R(f, "EXDEV")
     ELSE IF ~Writable(f, Front(ro.p)) \/ ~Writable(f, Front(rn.p))
          THEN R(f, "EACCES")
     ELSE IF rn.err = "nil" /\ f[ro.p].t = "dir" THEN R(f, "ENOTDIR")
     ELSE R(MoveSubtree(f, ro.p, rn.p), "nil")

\* samefile(src, dst): os.SameFile of the two os.Stat results; false when
\* either stat fails.
samefile(f, src, dst) ==
  LET s == Stat(f, src)
      d == Stat(f, dst)
  IN s.err = "nil" /\ d.err = "nil" /\ s.p = d.p


(***************************************************************************)
(* CopyFile(src, dst, followSymlinks).  Without followSymlinks a symlink   *)
(* src is recreated as a link whose target is the string src itself.  With *)
(* it, the link is read once and the target string is opened as a path of  *)
(* its own, that is, relative to the working directory.  The bytes written *)
(* are those read after dst was truncated; a count other than the size     *)
(* stat reported before is an error.                                       *)
(***************************************************************************)
CopyFile(f, src, dst, followSymlinks) ==
  LET srcStat == Lstat(f, src)
      dstStat == Stat(f, dst)
  IN IF samefile(f, src, dst) THEN R(f, "SameFileError")
     ELSE IF srcStat.err # "nil" THEN R(f, srcStat.err)
     ELSE IF dstStat.err # "nil" /\ ~IsNotExist(dstStat.err) THEN R(f, dstStat.err)
     ELSE IF ~followSymlinks /\ f[srcStat.p].t = "link" THEN Symlink(f, src, dst)
     ELSE LET st == IF f[srcStat.p].t = "link"
                    THEN Stat(f, f[srcStat.p].to)
                    ELSE srcStat
          IN IF st.err # "nil" THEN R(f, st.err)
             ELSE LET fdst == Create(f, dst)
                  IN IF fdst.err # "nil" THEN fdst
                     ELSE IF f[st.p].t = "dir" THEN R(fdst.f, "EISDIR")
                     ELSE LET size == fdst.f[st.p].c
                              d == Stat(fdst.f, dst)
                              g == Put(fdst.f, d.p, File(size, fdst.f[d.p].m))
                          IN IF size # f[st.p].c THEN R(g, "ShortCopy")
                             ELSE R(g, "nil")

\* CopyMode(src, dst, followSymlinks).  The second os.Stat(src) drops its
\* error: when it fails srcStat is nil and srcStat.Mode() panics.
CopyMode(f, src, dst, followSymlinks) ==
  LET srcStat == Lstat(f, src)
      dstStat == Lstat(f, dst)
      st == Stat(f, src)
  IN IF srcStat.err # "nil" THEN R(f, srcStat.err)
     ELSE IF dstStat.err # "nil" THEN R(f, dstStat.err)
     ELSE IF ~followSymlinks /\ f[srcStat.p].t = "link" /\ f[dstStat.p].t = "link"
          THEN R(f, "nil")
     ELSE IF st.err # "nil" THEN R(f, "PANIC")
     ELSE Chmod(f, dst, f[st.p].m)

RD(f, e, d) == [f |-> f, err |-> e, dst |-> d]

\* Copy after CopyFile returned cf: CopyMode unless CopyFile failed.
CopyModeAfter(cf, src, dst, followSymlinks) ==
  IF cf.err # "nil" THEN cf ELSE CopyMode(cf.f, src, dst, followSymlinks)

\* A primitive's result r returned together with the path d.
Returned(r, d) == RD(r.f, r.err, d)

\* Copy(src, dst, followSymlinks): CopyFile then CopyMode, into dst/base(src)
\* when dst is a directory.
Copy(f, src, dst, followSymlinks) ==
  LET dstInfo == Stat(f, dst)
      dst2 == IF dstInfo.err = "nil" /\ f[dstInfo.p].t = "dir"
              THEN Append(dst, Last(src))
              ELSE dst
  IN IF dstInfo.err # "nil" /\ ~IsNotExist(dstInfo.err) THEN RD(f, dstInfo.err, dst2)
     ELSE Returned(CopyModeAfter(CopyFile(f, src, dst2, followSymlinks),
                                 src, dst2, followSymlinks), dst2)

\* The names of a set, as ioutil.ReadDir orders them.
SortedNames(S) == SelectSeq(NameOrder, LAMBDA n : n \in S)

\* ioutil.ReadDir(dir) for a canonical directory
ReadDir(f, d) == SortedNames({Last(q) : q \in Children(f, d)})

(***************************************************************************)
(* An IgnoreFunc.  The functions tried return one set of names for the     *)
(* directory `at` and another for every other directory; `on` = FALSE is   *)
(* options.Ignore == nil.                                                  *)
(***************************************************************************)
NoIgnore == [on |-> FALSE, at |-> <<>>, top |-> {}, deep |-> {}]
Ignore(ig, dir, entries) == IF dir = ig.at THEN ig.top ELSE ig.deep

RT(f, e, calls) == [f |-> f, err |-> e, calls |-> calls]

\* The result of options.CopyFunction, as the loop of CopyTree reads it.
ViaCopy(c, calls) == RT(c.f, c.err, calls)

\* CopyTree's test of a link under Symlinks = false: os.Stat of the link's
\* target string, skipped when it does not exist and the flag is on.
SkipDangling(f, linkTo, o) == IsNotExist(Stat(f, linkTo).err) /\ o.ignoreDangling

(***************************************************************************)
(* CopyTree(src, dst, options) with CopyFunction = Copy.  `calls` is the   *)
(* log of the Ignore invocations so far: <<directory, entries>> each.      *)
(* CopyEntries is the loop over the entries listed before dst was made,    *)
(* CopyEntry its body for an entry that is not ignored, CopyLoop the       *)
(* return on an error or the next turn.                                    *)
(***************************************************************************)
RECURSIVE CopyTree(_, _, _, _, _)
RECURSIVE CopyEntries(_, _, _, _, _, _, _)
RECURSIVE CopyEntry(_, _, _, _, _, _)
RECURSIVE CopyLoop(_, _, _, _, _, _)

CopyEntry(f, src, dst, name, o, calls) ==
  LET srcPath == Append(src, name)
      dstPath == Append(dst, name)
      info == Lstat(f, srcPath)
  IN IF info.err # "nil" THEN RT(f, info.err, calls)
     ELSE IF f[info.p].t = "link" /\ o.symlinks
     THEN RT(Symlink(f, f[info.p].to, dstPath).f, "nil", calls)
     ELSE IF f[info.p].t = "link" /\ SkipDangling(f, f[info.p].to, o)
     THEN RT(f, "nil", calls)
     ELSE IF f[info.p].t = "dir"
     THEN CopyTree(f, srcPath, dstPath, o, calls)
     ELSE ViaCopy(Copy(f, srcPath, dstPath, FALSE), calls)

CopyLoop(step, src, dst, rest, ignoredNames, o) ==
  IF step.err # "nil" THEN step
  ELSE CopyEntries(step.f, src, dst, rest, ignoredNames, o, step.calls)

\* The loop without its test of the ignored names.
CopyEntriesNoSkip(f, src, dst, entries, ignoredNames, o, calls) ==
  IF entries = <<>> THEN RT(f, "nil", calls)
  ELSE CopyLoop(CopyEntry(f, src, dst, Head(entries), o, calls),
                src, dst, Tail(entries), ignoredNames, o)

CopyEntries(f, src, dst, entries, ignoredNames, o, calls) ==
  IF entries = <<>> THEN RT(f, "nil", calls)
  ELSE IF Head(entries) \in ignoredNames
  THEN CopyEntries(f, src, dst, Tail(entries), ignoredNames, o, calls)
  ELSE CopyLoop(CopyEntry(f, src, dst, Head(entries), o, calls),
                src, dst, Tail(entries), ignoredNames, o)

\* CopyTree once dst is made (mk): the Ignore call, then the loop.
CopyTreeInto(mk, src, dst, entries, o, calls) ==
  IF mk.err # "nil" THEN RT(mk.f, mk.err, calls)
  ELSE IF o.ignore.on
  THEN CopyEntries(mk.f, src, dst, entries, Ignore(o.ignore, src, entries), o,
                   Append(calls, <<src, entries>>))
  ELSE CopyEntries(mk.f, src, dst, entries, {}, o, calls)

CopyTree(f, src, dst, o, calls) ==
  LET srcFileInfo == Stat(f, src)
  IN IF srcFileInfo.err # "nil" THEN RT(f, srcFileInfo.err, calls)
     ELSE IF f[srcFileInfo.p].t # "dir" THEN RT(f, "NotADirectoryError", calls)
     ELSE IF ~IsNotExist(Stat(f, dst).err) THEN RT(f, "AlreadyExistsError", calls)
     ELSE CopyTreeInto(MkdirAll(f, dst, f[srcFileInfo.p].m), src, dst,
                       ReadDir(f, srcFileInfo.p), o, calls)

(***************************************************************************)
(* Path strings, for destinsrc: a string is a sequence of characters.      *)
(***************************************************************************)
\* string(os.PathSeparator)
sep == <<"/">>
\* The working directory filepath.Abs resolves a relative path against.
Cwd == <<"/", "w">>

HasPrefix(s, prefix) == IsPrefix(prefix, s)
HasSuffix(s, suffix) ==
  Len(suffix) <= Len(s) /\ SubSeq(s, Len(s) - Len(suffix) + 1, Len(s)) = suffix

\* The string a caller writes for a path of the filesystem model: its
\* names joined by separators.
RECURSIVE PathStr(_)
PathStr(p) ==
  IF p = <<>> THEN <<>>
  ELSE IF Len(p) = 1 THEN <<p[1]>>
  ELSE PathStr(Front(p)) \o sep \o <<Last(p)>>

\* The elements of a string between its separators (empty ones included).
RECURSIVE Split(_)
Split(s) ==
  IF s = <<>> THEN << <<>> >>
  ELSE LET r == Split(Tail(s))
       IN IF Head(s) = "/" THEN << <<>> >> \o r
          ELSE << <<Head(s)>> \o Head(r) >> \o Tail(r)

\* filepath.Clean's pass over the elements: empty and "." elements dropped,
\* ".." removes the element before it, is dropped at the root of a rooted
\* path and kept at the start of a relative one.
RECURSIVE CleanElems(_, _, _)
CleanElems(elems, out, rooted) ==
  IF elems = <<>> THEN out
  ELSE LET e == Head(elems)
           rest == Tail(elems)
       IN IF e = <<>> \/ e = <<".">> THEN CleanElems(rest, out, rooted)
          ELSE IF e = <<".", ".">>
          THEN IF out # <<>> /\ Last(out) # <<".", ".">>
               THEN CleanElems(rest, Front(out), rooted)
               ELSE IF rooted THEN CleanElems(rest, out, rooted)
               ELSE CleanElems(rest, Append(out, e), rooted)
          ELSE CleanElems(rest, Append(out, e), rooted)

RECURSIVE JoinElems(_)
JoinElems(elems) ==
  IF elems = <<>> THEN <<>>
  ELSE IF Len(elems) = 1 THEN elems[1]
  ELSE JoinElems(Front(elems)) \o sep \o Last(elems)

\* filepath.Clean(path)
Clean(path) ==
  LET rooted == path # <<>> /\ path[1] = "/"
      out == JoinElems(CleanElems(Split(path), <<>>, rooted))
  IN IF rooted THEN sep \o out
     ELSE IF out = <<>> THEN <<".">>
     ELSE out

\* filepath.Abs(path): Clean(path) when rooted, Join(cwd, path) otherwise
Abs(path) ==
  IF path # <<>> /\ path[1] = "/" THEN Clean(path)
  ELSE Clean(Cwd \o sep \o path)

\* destinsrc with the arguments of strings.HasPrefix exchanged.
destinsrcPrefixSwapped(src, dst) ==
  LET s1 == Abs(src)
      d1 == Abs(dst)
      s2 == IF ~HasSuffix(s1, sep) THEN s1 \o sep ELSE s1
      d2 == IF ~HasSuffix(s2, sep) THEN d1 \o sep ELSE d1
  IN HasPrefix(s2, d2)

\* destinsrc(src, dst).  The second test is of src again (which ends with
\* a separator by then), so dst is never given one.
destinsrc(src, dst) ==
  LET s1 == Abs(src)
      d1 == Abs(dst)
      s2 == IF ~HasSuffix(s1, sep) THEN s1 \o sep ELSE s1
      d2 == IF ~HasSuffix(s2, sep) THEN d1 \o sep ELSE d1
  IN HasPrefix(d2, s2)

\* The options Move passes to CopyTree.
MoveTreeOptions == [symlinks |-> TRUE, ignoreDangling |-> FALSE, ignore |-> NoIgnore]

(***************************************************************************)
(* Move(src, dst, options) with CopyFunction = Copy.  In the directory     *)
(* fallback the results of CopyTree and of os.RemoveAll are dropped.       *)
(***************************************************************************)
\* Move's return after its last step, os.Remove, returned r.
MoveDone(r, real_dst) ==
  IF r.err # "nil" THEN RD(r.f, r.err, <<>>) ELSE RD(r.f, "nil", real_dst)

\* Move's fallback for a link: the link made at real_dst (sy), then os.Remove.
MoveLink(f, sy, src, real_dst) ==
  IF sy.err # "nil" THEN RD(f, sy.err, <<>>)
  ELSE MoveDone(Remove(sy.f, src), real_dst)

\* Move's fallback for a directory: CopyTree returned ct; os.RemoveAll.
MoveTree(ct, src, real_dst) == RD(RemoveAll(ct.f, src).f, "nil", real_dst)

\* Move's fallback for a file: the copy function returned c; os.Remove.
MoveFile(c, src, real_dst) ==
  IF c.err # "nil" THEN RD(c.f, c.err, <<>>)
  ELSE MoveDone(Remove(c.f, src), real_dst)

\* Move after os.Rename(src, real_dst) returned rn.
MoveFallback(f, rn, src, dst, real_dst) ==
  LET srcStat == Lstat(f, src)
  IN IF rn.err = "nil" THEN RD(rn.f, "nil", real_dst)
     ELSE IF srcStat.err # "nil" THEN RD(f, srcStat.err, <<>>)
     ELSE IF f[srcStat.p].t = "link"
     THEN MoveLink(f, Symlink(f, f[srcStat.p].to, real_dst), src, real_dst)
     ELSE IF IsDirAt(f, src)
     THEN IF destinsrc(PathStr(src), PathStr(dst))
          THEN RD(f, "MoveOntoSelfError", <<>>)
          ELSE MoveTree(CopyTree(f, src, real_dst, MoveTreeOptions, <<>>),
                        src, real_dst)
     ELSE MoveFile(Copy(f, src, real_dst, TRUE), src, real_dst)

Move(f, src, dst, xdev) ==
  LET isDirDst == IsDirAt(f, dst)
      real_dst == IF isDirDst THEN Append(dst, Last(src)) ELSE dst
  IN IF isDirDst /\ samefile(f, src, dst)
     THEN Returned(Rename(f, src, dst, xdev), dst)
     ELSE IF isDirDst /\ Stat(f, real_dst).err = "nil"
     THEN RD(f, "AlreadyExistsError", <<>>)
     ELSE MoveFallback(f, Rename(f, src, real_dst, xdev), src, dst, real_dst)

(***************************************************************************)
(* The filesystems a call starts from: a source tree at "a", something or  *)
(* nothing at "b", and a file "x" in the working directory or not.         *)
(***************************************************************************)
MakeFS(E) ==
  [q \in {e[1] : e \in E} \cup {<<>>} |->
     IF q = <<>> THEN Dir("rw") ELSE (CHOOSE e \in E : e[1] = q)[2]]

TreesA(m) ==
  { {<< <<"a">>, Dir(m) >>, << <<"a", "f">>, File(1, "rw") >>},
    {<< <<"a">>, Dir(m) >>, << <<"a", "f">>, File(1, "ro") >>,
     << <<"a", "l">>, Link(<<"f">>) >>},
    {<< <<"a">>, Dir(m) >>, << <<"a", "l">>, Link(<<"x">>) >>},
    {<< <<"a">>, Dir(m) >>, << <<"a", "f">>, File(1, "rw") >>,
     << <<"a", "l">>, Link(<<"x">>) >>, << <<"a", "d">>, Dir("rw") >>,
     << <<"a", "d", "f">>, File(2, "rw") >>,
     << <<"a", "d", "l">>, Link(<<"f">>) >>},
    {<< <<"a">>, Dir(m) >>, << <<"a", "f">>, File(1, "rw") >>,
     << <<"a", "d">>, Dir("rw") >>, << <<"a", "d", "a">>, File(2, "rw") >>},
    {<< <<"a">>, Dir(m) >>, << <<"a", "d">>, Dir("rw") >>,
     << <<"a", "d", "d">>, Dir(m) >>, << <<"a", "d", "d", "f">>, File(2, "rw") >>} }

TreesB ==
  { {},
    {<< <<"b">>, File(3, "rw") >>},
    {<< <<"b">>, Dir("rw") >>},
    {<< <<"b">>, Dir("rw") >>, << <<"b", "a">>, File(3, "rw") >>,
     << <<"b", "f">>, Link(<<"c">>) >>},
    {<< <<"b">>, Dir("rw") >>, << <<"b", "a">>, Link(<<"c">>) >>},
    {<< <<"b">>, Link(<<"c">>) >>},
    {<< <<"b">>, Link(<<"a", "d">>) >>} }

TreesX == { {}, {<< <<"x">>, File(4, "rw") >>} }

InitFS ==
  {MakeFS(A \cup B \cup X) : A \in TreesA("rw") \cup TreesA("ro"), B \in TreesB, X \in TreesX}

\* The paths the calls are given.
SrcPaths == {<<"a">>, <<"a", "f">>, <<"a", "l">>, <<"a", "d">>, <<"b">>, <<"x">>}
DstPaths == {<<"b">>, <<"c">>, <<"a">>, <<"a", "d">>, <<"a", "c">>, <<"b", "c">>}
TreeSrcPaths == {<<"a">>, <<"a", "d">>, <<"a", "f">>, <<"b">>}
TreeDstPaths == {<<"b">>, <<"c">>, <<"b", "c">>, <<"a", "c">>, <<"a", "d", "c">>}

\* The Ignore functions CopyTree is given for the source directory src.
IgnoreFns(src) ==
  {NoIgnore} \cup
  {[on |-> TRUE, at |-> src, top |-> T, deep |-> D] :
     T \in {{}, {"f"}, {"d", "l"}}, D \in {{}, {"f"}}}

\* The strings destinsrc is applied to.
Chars == {"/", ".", "a", "b"}
Strs == UNION {[1..n -> Chars] : n \in 1..MaxStrLen}

NoCall ==
  [op |-> "none", src |-> <<>>, dst |-> <<>>, follow |-> FALSE, xdev |-> FALSE,
   opts |-> MoveTreeOptions]
NoRet == [err |-> "nil", dst |-> <<>>, calls |-> <<>>, val |-> FALSE]

Init ==
  /\ phase = "ready"
  /\ fs0 \in InitFS
  /\ fs = fs0
  /\ call = NoCall
  /\ ret = NoRet

CopyFileCall ==
  /\ phase = "ready"
  /\ \E src \in SrcPaths, dst \in DstPaths, follow \in BOOLEAN :
       LET r == CopyFile(fs, src, dst, follow)
       IN /\ fs' = r.f
          /\ ret' = [NoRet EXCEPT !.err = r.err]
          /\ call' = [NoCall EXCEPT !.op = "CopyFile", !.src = src, !.dst = dst,
                                    !.follow = follow]
  /\ phase' = "done"
  /\ UNCHANGED fs0

CopyModeCall ==
  /\ phase = "ready"
  /\ \E src \in SrcPaths, dst \in DstPaths, follow \in BOOLEAN :
       LET r == CopyMode(fs, src, dst, follow)
       IN /\ fs' = r.f
          /\ ret' = [NoRet EXCEPT !.err = r.err]
          /\ call' = [NoCall EXCEPT !.op = "CopyMode", !.src = src, !.dst = dst,
                                    !.follow = follow]
  /\ phase' = "done"
  /\ UNCHANGED fs0

CopyCall ==
  /\ phase = "ready"
  /\ \E src \in SrcPaths, dst \in DstPaths, follow \in BOOLEAN :
       LET r == Copy(fs, src, dst, follow)
       IN /\ fs' = r.f
          /\ ret' = [NoRet EXCEPT !.err = r.err, !.dst = r.dst]
          /\ call' = [NoCall EXCEPT !.op = "Copy", !.src = src, !.dst = dst,
                                    !.follow = follow]
  /\ phase' = "done"
  /\ UNCHANGED fs0

CopyTreeCall ==
  /\ phase = "ready"
  /\ \E src \in TreeSrcPaths, dst \in TreeDstPaths,
        symlinks \in BOOLEAN, ignoreDangling \in BOOLEAN :
       \E ig \in IgnoreFns(src) :
         LET o == [symlinks |-> symlinks, ignoreDangling |-> ignoreDangling,
                   ignore |-> ig]
             r == CopyTree(fs, src, dst, o, <<>>)
         IN /\ fs' = r.f
            /\ ret' = [NoRet EXCEPT !.err = r.err, !.calls = r.calls]
            /\ call' = [NoCall EXCEPT !.op = "CopyTree", !.src = src, !.dst = dst,
                                      !.opts = o]
  /\ phase' = "done"
  /\ UNCHANGED fs0

MoveCall ==
  /\ phase = "ready"
  /\ \E src \in SrcPaths, dst \in DstPaths, xdev \in BOOLEAN :
       LET r == Move(fs, src, dst, xdev)
       IN /\ fs' = r.f
          /\ ret' = [NoRet EXCEPT !.err = r.err, !.dst = r.dst]
          /\ call' = [NoCall EXCEPT !.op = "Move", !.src = src, !.dst = dst,
                                    !.xdev = xdev]
  /\ phase' = "done"
  /\ UNCHANGED fs0

Next == CopyFileCall \/ CopyModeCall \/ CopyCall \/ CopyTreeCall \/ MoveCall

Spec == Init /\ [][Next]_vars

\* The empty filesystem: only the working directory.
EmptyFS == MakeFS({})

\* destinsrc on its own: the two strings are drawn at the start.
InitPath ==
  /\ phase = "ready"
  /\ fs0 = EmptyFS
  /\ fs = fs0
  /\ \E s \in Strs, d \in Strs :
       call = [op |-> "destinsrc", src |-> s, dst |-> d]
  /\ ret = NoRet

DestInSrcCall ==
  /\ phase = "ready"
  /\ call.op = "destinsrc"
  /\ ret' = [NoRet EXCEPT !.val = destinsrc(call.src, call.dst)]
  /\ phase' = "done"
  /\ UNCHANGED <<fs0, fs, call>>

SpecPath == InitPath /\ [][DestInSrcCall]_vars


(***************************************************************************)
(*                              The claims                                 *)
(***************************************************************************)
Done(op) == phase = "done" /\ call.op = op
Rel(base, q) == SubSeq(q, Len(base) + 1, Len(q))
ExistsAt(f, path) == Lstat(f, path).err = "nil"
NodeAt(f, path) == f[Lstat(f, path).p]
IsRealDir(f, path) == ExistsAt(f, path) /\ NodeAt(f, path).t = "dir"
IsFileWith(f, path, c) ==
  ExistsAt(f, path) /\ NodeAt(f, path).t = "file" /\ NodeAt(f, path).c = c

\* The canonical directory CopyTree reads for call.src, and Move's real_dst.
SrcRoot == Stat(fs0, call.src).p
RealDst == IF IsDirAt(fs0, call.dst) THEN Append(call.dst, Last(call.src)) ELSE call.dst

\* Move reached its directory fallback: no early return, the rename failed,
\* src is a directory and no link, and destinsrc said no.
MoveDirFallback ==
  /\ Done("Move")
  /\ ~(IsDirAt(fs0, call.dst) /\ samefile(fs0, call.src, call.dst))
  /\ ~(IsDirAt(fs0, call.dst) /\ Stat(fs0, RealDst).err = "nil")
  /\ Rename(fs0, call.src, RealDst, call.xdev).err # "nil"
  /\ IsRealDir(fs0, call.src)
  /\ ~IsPrefix(call.src, call.dst)

\* C1: in Move's directory fallback an error of the tree copy or of the
\* removal of src is Move's error; Move succeeds only when both succeeded.
C1_MoveDirFallbackReturnsErrors ==
  MoveDirFallback =>
    LET ct == CopyTree(fs0, call.src, RealDst, MoveTreeOptions, <<>>)
        ra == RemoveAll(ct.f, call.src)
    IN /\ ct.err # "nil" => ret.err = ct.err
       /\ (ct.err = "nil" /\ ra.err # "nil") => ret.err = ra.err
       /\ ret.err = "nil" => (ct.err = "nil" /\ ra.err = "nil")

\* A CopyTree call that nothing but the source's links can disturb: src is
\* a directory whose tree is writable, nothing is at dst, which lies
\* outside src in a writable directory, and no Ignore function is given.
PlainTreeCopy ==
  /\ Done("CopyTree")
  /\ IsRealDir(fs0, call.src)
  /\ \A q \in Subtree(fs0, call.src) : fs0[q].t = "dir" => fs0[q].m = "rw"
  /\ Lstat(fs0, call.dst).err = "ENOENT" /\ Lstat(fs0, call.dst).last
  /\ ~IsPrefix(call.src, call.dst)
  /\ ~call.opts.ignore.on

\* The links of the source tree whose target does not exist.
DanglingLinks ==
  {q \in Subtree(fs0, call.src) : fs0[q].t = "link" /\ Stat(fs0, q).err = "ENOENT"}

\* C2: with Symlinks = false and Copy, a source tree with a dangling link
\* makes CopyTree fail when IgnoreDanglingSymlinks is false, and succeed
\* with no entry for the link in the destination when it is true.
C2_DanglingSymlinkPolicy ==
  (PlainTreeCopy /\ ~call.opts.symlinks /\ DanglingLinks # {}) =>
    IF call.opts.ignoreDangling
    THEN /\ ret.err = "nil"
         /\ \A q \in DanglingLinks : ~ExistsAt(fs, call.dst \o Rel(call.src, q))
    ELSE ret.err # "nil"

\* Move(dirA, dirA/sub): dirA a directory, dirA/sub absent or a directory.
MoveIntoSelf ==
  /\ Done("Move")
  /\ IsRealDir(fs0, call.src)
  /\ IsPrefix(call.src, call.dst) /\ call.dst # call.src
  /\ Lstat(fs0, call.dst).err = "ENOENT" \/ IsRealDir(fs0, call.dst)

\* C3 (as claimed): Move(dirA, dirA/sub) returns MoveOntoSelfError and leaves
\* the filesystem as it was, whatever dirA/sub holds.
C3_Original ==
  MoveIntoSelf => (ret.err = "MoveOntoSelfError" /\ fs = fs0)

\* C3 (amended): Move(dirA, dirA/sub) leaves the filesystem as it was and
\* returns MoveOntoSelfError, except that it returns AlreadyExistsError when
\* dirA/sub is a directory in which stat finds an entry named base(dirA).
C3_MoveIntoSelfRefused ==
  MoveIntoSelf =>
    /\ fs = fs0
    /\ ret.err = IF IsDirAt(fs0, call.dst)
                    /\ Stat(fs0, Append(call.dst, Last(call.src))).err = "nil"
                 THEN "AlreadyExistsError"
                 ELSE "MoveOntoSelfError"

\* C3's case: dirA/sub is an existing directory and the move is refused as a
\* move onto itself.
C3_Witness ==
  /\ MoveIntoSelf
  /\ IsRealDir(fs0, call.dst)
  /\ Children(fs0, call.dst) # {}
  /\ ret.err = "MoveOntoSelfError"

\* C4: CopyTree onto a dst at which anything exists (file, directory or
\* link) returns AlreadyExistsError and changes nothing.
C4_TreeNeverMerges ==
  (Done("CopyTree") /\ IsDirAt(fs0, call.src) /\ ExistsAt(fs0, call.dst)) =>
    (ret.err = "AlreadyExistsError" /\ fs = fs0)

\* C5: when dst is a directory other than src and an entry (other than src
\* itself) exists at real_dst = dst/base(src), Move returns
\* AlreadyExistsError and changes nothing.
C5_MoveOntoExistingEntry ==
  (/\ Done("Move")
   /\ ExistsAt(fs0, call.src)
   /\ IsDirAt(fs0, call.dst)
   /\ ~samefile(fs0, call.src, call.dst)
   /\ ExistsAt(fs0, Append(call.dst, Last(call.src)))
   /\ Lstat(fs0, Append(call.dst, Last(call.src))).p # Lstat(fs0, call.src).p) =>
    (ret.err = "AlreadyExistsError" /\ fs = fs0)

\* The entry at the canonical source path q has its like at path t of g:
\* a file of the same content, a link of the same target, a directory.
Mirrored(g, q, t) ==
  /\ ExistsAt(g, t)
  /\ NodeAt(g, t).t = fs0[q].t
  /\ fs0[q].t = "file" => NodeAt(g, t).c = fs0[q].c
  /\ fs0[q].t = "link" => NodeAt(g, t).to = fs0[q].to

\* C6: after a successful CopyTree with Symlinks = true every file, link
\* and directory under src has its like at the same relative path under dst.
C6_TreeFidelity ==
  (/\ Done("CopyTree")
   /\ ret.err = "nil"
   /\ call.opts.symlinks
   /\ ~call.opts.ignore.on
   /\ IsRealDir(fs0, call.src)) =>
    \A q \in Subtree(fs0, call.src) \ {call.src} :
       Mirrored(fs, q, call.dst \o Rel(call.src, q))


\* The set of names the Ignore function of the call returns for the
\* directory written `dir`.
IgnoredAt(dir) ==
  IF ~call.opts.ignore.on THEN {}
  ELSE IF dir = call.opts.ignore.at THEN call.opts.ignore.top
  ELSE call.opts.ignore.deep

\* The path CopyTree writes for the canonical source path q.
SrcName(q) == call.src \o Rel(SrcRoot, q)
DstName(q) == call.dst \o Rel(SrcRoot, q)

\* The directories CopyTree visits from the canonical directory d on: d,
\* and those reached through directories that are not ignored.
RECURSIVE VisitedDirs(_)
VisitedDirs(d) ==
  {d} \cup UNION {VisitedDirs(k) :
                    k \in {q \in Children(fs0, d) :
                             fs0[q].t = "dir" /\ Last(q) \notin IgnoredAt(SrcName(d))}}

IgnoreCalls == {ret.calls[i] : i \in 1..Len(ret.calls)}

IgnoreCalledOncePerDirectory ==
  /\ Len(ret.calls) = Cardinality(VisitedDirs(SrcRoot))
  /\ IgnoreCalls = {<<SrcName(d), ReadDir(fs0, d)>> : d \in VisitedDirs(SrcRoot)}

SuccessfulIgnoringCopy ==
  Done("CopyTree") /\ ret.err = "nil" /\ call.opts.ignore.on

Ignored(d, q) == Last(q) \in IgnoredAt(SrcName(d))

TargetMissing(f, q) == Stat(f, fs0[q].to).err = "ENOENT"

C8_LinksCopiedAsContent ==
  (/\ Done("CopyTree")
   /\ ret.err = "nil"
   /\ ~call.opts.symlinks
   /\ ~call.opts.ignore.on
   /\ IsRealDir(fs0, call.src)) =>
    \A q \in Subtree(fs0, call.src) :
       (/\ fs0[q].t = "link"
        /\ Stat(fs0, q).err = "nil"
        /\ fs0[Stat(fs0, q).p].t = "file") =>
         IsFileWith(fs, call.dst \o Rel(call.src, q), fs0[Stat(fs0, q).p].c)

\* A string with a separator appended unless it ends with one.
WithSep(s) == IF HasSuffix(s, sep) THEN s ELSE s \o sep

\* The elements of a cleaned absolute path.
Elems(s) == SelectSeq(Split(s), LAMBDA e : e # <<>>)

\* C9: destinsrc(src, dst) is true exactly when Abs(dst) with a trailing
\* separator has Abs(src) with a trailing separator as a prefix, that is,
\* when dst is src or lies below src.
C9_DestInSrcIsContainment ==
  (phase = "done" /\ call.op = "destinsrc") =>
    /\ ret.val = HasPrefix(WithSep(Abs(call.dst)), WithSep(Abs(call.src)))
    /\ ret.val = IsPrefix(Elems(Abs(call.src)), Elems(Abs(call.dst)))

\* C10: when Move returns, every regular file that was under src is, with
\* its content, at its old path or at the same relative path under real_dst.
C10_MoveLosesNoFile ==
  (Done("Move") /\ ExistsAt(fs0, call.src)) =>
    \A q \in Subtree(fs0, Lstat(fs0, call.src).p) :
       fs0[q].t = "file" =>
         \/ IsFileWith(fs, q, fs0[q].c)
         \/ IsFileWith(fs, RealDst \o Rel(Lstat(fs0, call.src).p, q), fs0[q].c)

====
